---- MODULE Spec2Model ----
(***************************************************************************)
(* Sirikata content transfer: the sparse byte-range structure of           *)
(* libcore/src/transfer/TransferData.hpp (DenseData, SparseData).          *)
(*                                                                         *)
(* A DenseData is a Range (start, length, goes-to-end-of-file flag) plus   *)
(* the byte vector mData.  A SparseData is the list mSparseData of         *)
(* DenseData.  Range.hpp (Range, Range::addToList) is not part of the      *)
(* available sources; those definitions follow the written specification   *)
(* (sections 3, 4.1 and 4.3) and are marked as such where they appear.     *)
(***************************************************************************)
EXTENDS Integers, Sequences, FiniteSets, TLC

VARIABLES mSparseData, latest, last, log,
          chunk,
          trav,
          lock, threads, acquired,
          walk,
          core_plugin_refcount, registered, asserts,
          objects, physicalObjects

\* The SparseData and its history variables.
setVars == <<mSparseData, latest, last, log>>
\* A DenseData being filled by a streaming fetch.
chunkVars == <<chunk>>
\* A traversal of the SparseData in progress.
travVars == <<trav>>
\* Callers sharing one SparseData under a read-write lock.
rwVars == <<lock, threads, acquired>>
\* A debugPrint call in progress.
walkVars == <<walk>>
\* The bullet plugin (BulletSystem.cpp).
bulletVars == <<core_plugin_refcount, registered, asserts, objects, physicalObjects>>

vars == <<setVars, chunkVars, travVars, rwVars, walkVars, bulletVars>>

(***************************************************************************)
(* Bounds of the model.                                                    *)
(***************************************************************************)
\* Offsets of inserted chunks lie in 0 .. MaxOff.
MaxOff == 4
\* Byte values a fetch can deliver are 1 .. NumByteValues.
NumByteValues == 2
\* Width, in bits, of the unsigned offset/length arithmetic of the model.
\* cache_usize_type is a 64-bit unsigned integer; the model keeps the
\* wrap-around but at a width the model checker's integers can hold.
WordBits == 12
\* Number of insertions recorded by the scenario specification.
MaxLog == 3
\* Number of insertions made by the callers sharing a SparseData.
MaxWrites == 2
\* Largest magnitude of core_plugin_refcount (an int in the source).
MaxRef == 3
\* Number of proxies created in one BulletSystem.
NumObjs == 2
\* Largest length of BulletSystem::physicalObjects.
MaxPhys == 3

Modulus == 2 ^ WordBits
Word(x) == x % Modulus

Bytes == 1 .. NumByteValues

(***************************************************************************)
(* Range (Range.hpp, modelled from the specification's Interval).          *)
(***************************************************************************)
startbyte(r) == r.start
length(r) == r.length
goesToEndOfFile(r) == r.eof
endbyte(r) == Word(r.start + r.length)

(***************************************************************************)
(* DenseData                                                               *)
(***************************************************************************)
\* DenseData(range): the Range and a buffer resized to range.length().
\* The fetch layer then fills the buffer through writableData(); `bytes`
\* is the content it wrote.
DenseData(start, len, eof, bytes) ==
    [start |-> start, length |-> len, eof |-> eof, mData |-> bytes]

\* Range::setLength(len, is_npos) (Range.hpp, modelled from section 4.2:
\* the interval's end follows the new length).
Range_setLength(r, len, is_npos) == [r EXCEPT !.length = len, !.eof = is_npos]

\* std::vector::resize(len): cut, or extended by zero bytes.
resize(v, len) == [k \in 1 .. len |-> IF k <= Len(v) THEN v[k] ELSE 0]

\* DenseData::setLength(len, is_npos)
DenseData_setLength_noResize(d, len, is_npos) == Range_setLength(d, len, is_npos)

DenseData_setLength(d, len, is_npos) ==
    [Range_setLength(d, len, is_npos) EXCEPT !.mData = resize(d.mData, len)]

\* A pointer into a buffer: the buffer and the index pointed at.
NULL == [buf |-> <<>>, idx |-> -1]

\* DenseData::dataAt(offset)
DenseData_dataAt_offByOne(d, offset) ==
    IF offset >= endbyte(d) \/ offset < startbyte(d)
    THEN NULL
    ELSE [buf |-> d.mData,
          idx |-> IF offset - startbyte(d) + 1 < Len(d.mData)
                  THEN offset - startbyte(d) + 1 ELSE 0]

DenseData_dataAt_noLowerBound(d, offset) ==
    IF offset >= endbyte(d)
    THEN NULL
    ELSE [buf |-> d.mData, idx |-> offset - startbyte(d)]

DenseData_dataAt(d, offset) ==
    IF offset >= endbyte(d) \/ offset < startbyte(d)
    THEN NULL
    ELSE [buf |-> d.mData, idx |-> offset - startbyte(d)]

\* The byte a non-null pointer points at.
Deref(p) == p.buf[p.idx + 1]

(***************************************************************************)
(* Range::addToList (Range.hpp), modelled from section 4.3 of the          *)
(* specification: the chunk is merged with every entry it overlaps or      *)
(* touches; the new bytes win where they overlap; otherwise it is          *)
(* inserted in order of start.  A bounded chunk of length 0 covers no      *)
(* offset: the sequence is kept maximally compact (section 3), so it adds  *)
(* no entry.                                                               *)
(***************************************************************************)
\* Intervals [a.start, a.end) and [b.start, b.end) overlap or touch; an
\* unbounded interval has no upper end.
Touches(a, b) ==
    /\ (goesToEndOfFile(b) \/ startbyte(a) <= endbyte(b))
    /\ (goesToEndOfFile(a) \/ startbyte(b) <= endbyte(a))

TouchedBy(data, list) == {i \in 1 .. Len(list) : Touches(list[i], data)}

\* Section 4.3 fixes the merged buffer only for bounded intervals; a merge
\* in which an unbounded interval takes part is left open by it.
SpecDetermines(data, list) ==
    \/ TouchedBy(data, list) = {}
    \/ /\ ~goesToEndOfFile(data)
       /\ \A i \in TouchedBy(data, list) : ~goesToEndOfFile(list[i])

SetMin(S) == CHOOSE x \in S : \A y \in S : x <= y
SetMax(S) == CHOOSE x \in S : \A y \in S : x >= y

\* The value recorded for an offset no chunk has supplied: below every byte.
NoByte == SetMin(Bytes) - 1

ByteOf(d, o) == d.mData[o - startbyte(d) + 1]
Within(d, o) == startbyte(d) <= o /\ o < endbyte(d)

Coalesce(data, list, group) ==
    LET lo == SetMin({startbyte(data)} \cup {startbyte(list[i]) : i \in group})
        hi == SetMax({endbyte(data)} \cup {endbyte(list[i]) : i \in group})
        old(o) == CHOOSE i \in group : Within(list[i], o)
    IN  DenseData(lo, hi - lo, FALSE,
                  [k \in 1 .. (hi - lo) |->
                      IF Within(data, lo + k - 1)
                      THEN ByteOf(data, lo + k - 1)
                      ELSE ByteOf(list[old(lo + k - 1)], lo + k - 1)])

addToList(data, list) ==
    LET group == TouchedBy(data, list)
        before == SelectSeq(list, LAMBDA e : ~Touches(e, data)
                                             /\ startbyte(e) < startbyte(data))
        after == SelectSeq(list, LAMBDA e : ~Touches(e, data)
                                            /\ startbyte(e) > startbyte(data))
    IN  IF length(data) = 0 /\ ~goesToEndOfFile(data)
        THEN list
        ELSE IF group = {}
        THEN before \o <<data>> \o after
        ELSE before \o <<Coalesce(data, list, group)>> \o after

(***************************************************************************)
(* SparseData                                                              *)
(***************************************************************************)
\* SparseData::addValidData(data): data->addToList(data, *this).
addValidData_pushBack(list, data) == Append(list, data)

addValidData_dropOld(list, data) ==
    IF TouchedBy(data, list) = {} THEN addToList(data, list)
    ELSE SelectSeq(list, LAMBDA e : ~Touches(e, data)
                                    /\ startbyte(e) < startbyte(data))
         \o <<data>>
         \o SelectSeq(list, LAMBDA e : ~Touches(e, data)
                                       /\ startbyte(e) > startbyte(data))

addValidData(list, data) == addToList(data, list)

\* SparseData::erase(iter), iter at the i-th entry.
erase(list, i) == SubSeq(list, 1, i - 1) \o SubSeq(list, i + 1, Len(list))

\* SparseData::clear()
clear(list) == <<>>

\* SparseData::begin(), ++iter and *iter of iterator / const_iterator
\* (both derive from the list's iterator).
begin(list) == 1
end(list) == Len(list) + 1
iterNext_skip(pos) == pos + 2
iterNext(pos) == pos + 1
iterDeref(list, pos) == list[pos]

\* SparseData::getSpaceUsed()
RECURSIVE SumLengths(_, _)
SumLengths(list, i) ==
    IF i > Len(list) THEN 0
    ELSE Word(length(list[i]) + SumLengths(list, i + 1))

getSpaceUsed_sumEnds(list) ==
    IF list = <<>> THEN 0 ELSE endbyte(list[Len(list)])

getSpaceUsed(list) == SumLengths(list, 1)

\* SparseData::dataAt(offset, length): the loop over the entries, from
\* entry i on.  The result is the returned pointer and the out-parameter.
RECURSIVE dataAtFrom(_, _, _)
dataAtFrom(list, i, offset) ==
    IF i > Len(list)
    THEN [data |-> NULL, length |-> 0]
    ELSE LET range == list[i]
         IN  IF /\ offset >= startbyte(range)
                /\ (goesToEndOfFile(range) \/ offset < endbyte(range))
             THEN [data |-> DenseData_dataAt(range, offset),
                   length |-> Word(length(range)
                                   + Word(startbyte(range) - offset))]
             ELSE IF offset < startbyte(range)
             THEN [data |-> NULL,
                   length |-> Word(startbyte(range) - offset)]
             ELSE dataAtFrom(list, i + 1, offset)

dataAt_wholeLength(list, offset) ==
    LET r == dataAtFrom(list, 1, offset)
    IN  IF r.data = NULL THEN r
        ELSE [r EXCEPT !.length = Len(r.data.buf)]

dataAt_gapFromZero(list, offset) ==
    LET r == dataAtFrom(list, 1, offset)
    IN  IF r.data = NULL /\ r.length > 0
        THEN [r EXCEPT !.length = r.length + offset]
        ELSE r

\* The loop without the test that the entry starts after the offset.
RECURSIVE dataAtFrom_noGapTest(_, _, _)
dataAtFrom_noGapTest(list, i, offset) ==
    IF i > Len(list)
    THEN [data |-> NULL, length |-> 0]
    ELSE LET range == list[i]
         IN  IF /\ offset >= startbyte(range)
                /\ (goesToEndOfFile(range) \/ offset < endbyte(range))
             THEN [data |-> DenseData_dataAt(range, offset),
                   length |-> Word(length(range)
                                   + Word(startbyte(range) - offset))]
             ELSE [data |-> NULL,
                   length |-> Word(startbyte(range) - offset)]

dataAt_noGapTest(list, offset) == dataAtFrom_noGapTest(list, 1, offset)

dataAt(list, offset) == dataAtFrom(list, 1, offset)

(***************************************************************************)
(* Inputs: the chunks a fetch can hand to addValidData.                    *)
(***************************************************************************)
\* Bounded chunks [s, s + n) within 0 .. MaxOff, with any content.
BoundedChunks ==
    UNION {{DenseData(s, n, FALSE, b) : b \in [1 .. n -> Bytes]} :
              <<s, n>> \in {p \in (0 .. MaxOff) \X (0 .. MaxOff) :
                                p[1] + p[2] <= MaxOff}}

\* Streaming chunks: unbounded from s on, n bytes materialized so far
\* (DenseData of an unbounded Range, then setLength(n, true)).
UnboundedChunks ==
    UNION {{DenseData(s, n, TRUE, b) : b \in [1 .. n -> Bytes]} :
              <<s, n>> \in {p \in (0 .. MaxOff) \X (0 .. MaxOff) :
                                p[1] + p[2] <= MaxOff}}

\* The chunks of the accounting scenario: intervals between the marks
\* 0, 10, 20, 30, each filled with one byte value.
ScenarioMarks == {0, 10, 20, 30}
ScenarioChunks ==
    {DenseData(p[1], p[2] - p[1], FALSE, [k \in 1 .. (p[2] - p[1]) |-> b]) :
        p \in {q \in ScenarioMarks \X ScenarioMarks : q[1] < q[2]},
        b \in Bytes}

\* Offsets at which the queries are checked.
ProbeOffsets == 0 .. (MaxOff + 2)

(***************************************************************************)
(* State                                                                   *)
(*   mSparseData  the list of entries of the SparseData                    *)
(*   latest       history: for each offset the byte of the most recently   *)
(*                inserted chunk that supplied one, NoByte if none did     *)
(*   last         history: the last operation and, for an insertion, what  *)
(*                it met (how many entries it overlapped or touched,       *)
(*                whether it replaced a stored byte by a different one,    *)
(*                whether it left the list as it was)                      *)
(*   log          history: the intervals inserted, in order (scenario)     *)
(***************************************************************************)
NoLast == [op |-> "none", touched |-> 0, clobbered |-> FALSE, same |-> FALSE]

\* No streaming chunk yet: the DenseData of an empty Range.
InitChunk == chunk = DenseData(0, 0, FALSE, <<>>)

\* No traversal in progress.  trav.pos is the entry the iterator is at
\* (Len + 1: end()), 0 when there is no iterator; trav.kind tells a
\* const_iterator from an iterator; trav.seen (history) lists the intervals
\* of the entries visited, trav.round (history) counts the begin() calls,
\* up to 2.
NoTrav == [kind |-> "const", pos |-> 0, seen |-> <<>>, round |-> 0]
InitTrav == trav = NoTrav

\* The lock is free and every caller is idle.  Two callers insert, one
\* queries.  acquired (history) lists the chunks in the order in which
\* their callers got the lock.
Writers == {"w1", "w2"}
Readers == {"r1"}
Threads == Writers \cup Readers
IdleThread == [pc |-> "idle", data |-> <<>>, base |-> <<>>]
InitRW ==
    /\ lock = [writer |-> FALSE, readers |-> 0]
    /\ threads = [th \in Threads |-> IdleThread]
    /\ acquired = <<>>

\* No debugPrint call in progress.  walk.position is debugPrint's local
\* position; walk.report (history) lists what it has printed: data runs
\* and invalid runs, with the position and length of each; walk.finished
\* tells that the call has returned, with the list as it then was.
NoWalk == [active |-> FALSE, finished |-> FALSE, position |-> 0, report |-> <<>>]
InitWalk == walk = NoWalk

\* The plugin as loaded: static int core_plugin_refcount = 0, nothing
\* registered, no proxy created.  registered.now tells whether the
\* SimulationFactory holds the "bulletphysics" constructor, registered.twice
\* (history) that it was registered again while held.  asserts (history)
\* tells which assertion has failed, and whether the process was aborted
\* by it (a build with assertions enabled).
InitBullet ==
    /\ core_plugin_refcount = 0
    /\ registered = [now |-> FALSE, twice |-> FALSE]
    /\ asserts = [decrefcount |-> FALSE, destroy |-> FALSE, aborted |-> FALSE]
    /\ objects = <<>>
    /\ physicalObjects = <<>>

InitRest == InitChunk /\ InitTrav /\ InitRW /\ InitWalk /\ InitBullet

Init ==
    /\ mSparseData = <<>>
    /\ latest = [o \in 0 .. (MaxOff - 1) |-> NoByte]
    /\ last = NoLast
    /\ log = <<>>
    /\ InitRest

InitScenario ==
    /\ mSparseData = <<>>
    /\ latest = [o \in 0 .. (SetMax(ScenarioMarks) - 1) |-> NoByte]
    /\ last = NoLast
    /\ log = <<>>
    /\ InitRest

Supplies(data, o) == startbyte(data) <= o /\ o < startbyte(data) + Len(data.mData)

\* One call addValidData(data) on the SparseData.
Insert(data) ==
    /\ SpecDetermines(data, mSparseData)
    /\ mSparseData' = addValidData(mSparseData, data)
    /\ latest' = [o \in DOMAIN latest |->
                     IF Supplies(data, o) THEN ByteOf(data, o) ELSE latest[o]]
    /\ last' = [op |-> "addValidData",
                touched |-> IF Cardinality(TouchedBy(data, mSparseData)) > 2
                            THEN 2
                            ELSE Cardinality(TouchedBy(data, mSparseData)),
                clobbered |-> \E o \in DOMAIN latest :
                                 /\ latest[o] # NoByte
                                 /\ Supplies(data, o)
                                 /\ ByteOf(data, o) # latest[o],
                same |-> mSparseData' = mSparseData]

\* addValidData of a bounded chunk.
notSet == <<chunkVars, travVars, rwVars, walkVars, bulletVars>>

AddValidData ==
    \E data \in BoundedChunks : Insert(data) /\ UNCHANGED <<log, notSet>>

\* addValidData of a streaming (unbounded) chunk.
AddStreamingData ==
    \E data \in UnboundedChunks : Insert(data) /\ UNCHANGED <<log, notSet>>

\* addValidData of a scenario chunk, recorded in the log.
AddScenarioData ==
    \E data \in ScenarioChunks :
        /\ Len(log) < MaxLog
        /\ Insert(data)
        /\ log' = Append(log, <<startbyte(data), endbyte(data)>>)
        /\ UNCHANGED notSet

\* erase(iter) called by a user of the class.  The history forgets the
\* bytes of the erased entry.
Erase ==
    \E i \in 1 .. Len(mSparseData) :
        /\ mSparseData' = erase(mSparseData, i)
        /\ latest' = [o \in DOMAIN latest |->
                         IF Within(mSparseData[i], o) THEN NoByte ELSE latest[o]]
        /\ last' = [NoLast EXCEPT !.op = "erase"]
        /\ UNCHANGED <<log, notSet>>

\* clear() called by a user of the class.
Clear ==
    /\ mSparseData' = clear(mSparseData)
    /\ latest' = [o \in DOMAIN latest |-> NoByte]
    /\ last' = [NoLast EXCEPT !.op = "clear"]
    /\ UNCHANGED <<log, notSet>>

Next == AddValidData
Spec == Init /\ [][Next]_vars

\* A fetch constructs the DenseData it will fill: of a bounded Range, or of
\* an unbounded one, which has no length yet.  The start may be so high
\* that start + length wraps.
ChunkStarts == (0 .. MaxOff) \cup {Modulus - 1}
notChunk == <<setVars, travVars, rwVars, walkVars, bulletVars>>

Construct ==
    \E s \in ChunkStarts, n \in 0 .. MaxOff, eof \in BOOLEAN :
        /\ eof => n = 0
        /\ chunk' = DenseData(s, n, eof, resize(<<>>, n))
        /\ UNCHANGED notChunk

\* setLength(len, is_npos) on the chunk being filled.
SetLength ==
    \E len \in 0 .. MaxOff, is_npos \in BOOLEAN :
        /\ chunk' = DenseData_setLength(chunk, len, is_npos)
        /\ UNCHANGED notChunk

\* The fetch writes one byte through writableData().
WriteChunk ==
    \E k \in 1 .. Len(chunk.mData), b \in Bytes :
        /\ chunk' = [chunk EXCEPT !.mData[k] = b]
        /\ UNCHANGED notChunk

NextChunk == Construct \/ SetLength \/ WriteChunk
SpecChunk == Init /\ [][NextChunk]_vars

\* A traversal: begin(), then *iter and ++iter until end().  Insertions
\* are made before the first traversal.
notTravSet == <<chunkVars, rwVars, walkVars, bulletVars>>

Begin ==
    \E kind \in {"const", "mutable"} :
        /\ trav' = [kind |-> kind, pos |-> begin(mSparseData), seen |-> <<>>,
                    round |-> IF trav.round < 2 THEN trav.round + 1 ELSE 2]
        /\ UNCHANGED <<setVars, notTravSet>>

Advance ==
    /\ trav.pos # 0
    /\ trav.pos # end(mSparseData)
    /\ LET e == iterDeref(mSparseData, trav.pos)
       IN  trav' = [trav EXCEPT !.pos = iterNext(trav.pos),
                                !.seen = Append(@, <<startbyte(e), endbyte(e)>>)]
    /\ UNCHANGED <<setVars, notTravSet>>

\* The iterator is dropped.
EndTraversal ==
    /\ trav.pos # 0
    /\ trav' = [NoTrav EXCEPT !.round = trav.round]
    /\ UNCHANGED <<setVars, notTravSet>>

\* (*iter).writableData()[k] = b: iterator::operator* returns DenseData&.
IterWrite ==
    /\ trav.pos # 0
    /\ trav.pos # end(mSparseData)
    /\ trav.kind = "mutable"
    /\ \E k \in 1 .. Len(mSparseData[trav.pos].mData), b \in Bytes :
          /\ mSparseData' = [mSparseData EXCEPT ![trav.pos].mData[k] = b]
          /\ latest' = [latest EXCEPT ![startbyte(mSparseData[trav.pos]) + k - 1] = b]
    /\ last' = [NoLast EXCEPT !.op = "iterWrite"]
    /\ UNCHANGED <<log, trav, notTravSet>>

\* erase(iter) with the traversal's iterator, which is then invalid.
IterErase ==
    /\ trav.pos # 0
    /\ trav.pos # end(mSparseData)
    /\ trav.kind = "mutable"
    /\ mSparseData' = erase(mSparseData, trav.pos)
    /\ latest' = [o \in DOMAIN latest |->
                     IF Within(mSparseData[trav.pos], o) THEN NoByte ELSE latest[o]]
    /\ last' = [NoLast EXCEPT !.op = "erase"]
    /\ trav' = [NoTrav EXCEPT !.round = trav.round]
    /\ UNCHANGED <<log, notTravSet>>

NextTraverse ==
    \/ (trav = NoTrav /\ AddValidData)
    \/ Begin \/ Advance \/ EndTraversal \/ IterWrite \/ IterErase
SpecTraverse == Init /\ [][NextTraverse]_vars

\* Callers sharing one SparseData under the external synchronization of
\* section 5: a single read-write lock, writers exclusive, readers shared.
\* addValidData is not atomic: after the search the new chunk is spliced
\* into the list, and only then are the entries it overlaps or touches
\* replaced by the coalesced one.
canWrite_ignoreReaders(l) == ~l.writer
canWrite(l) == ~l.writer /\ l.readers = 0
canRead(l) == ~l.writer

\* The list after the splice and before the copy: the chunk stands in the
\* list next to the entries it will absorb.
Spliced(list, data) ==
    SelectSeq(list, LAMBDA e : startbyte(e) < startbyte(data))
    \o <<data>>
    \o SelectSeq(list, LAMBDA e : startbyte(e) >= startbyte(data))

notRWSet == <<latest, last, log, chunkVars, travVars, walkVars, bulletVars>>

AcquireWrite(th) ==
    /\ threads[th].pc = "idle"
    /\ Len(acquired) < MaxWrites
    /\ canWrite(lock)
    /\ \E data \in ScenarioChunks :
          /\ threads' = [threads EXCEPT ![th] =
                            [pc |-> "search", data |-> data, base |-> <<>>]]
          /\ acquired' = Append(acquired, data)
    /\ lock' = [lock EXCEPT !.writer = TRUE]
    /\ UNCHANGED <<mSparseData, notRWSet>>

Search(th) ==
    /\ threads[th].pc = "search"
    /\ threads' = [threads EXCEPT ![th].pc = "splice",
                                  ![th].base = mSparseData]
    /\ UNCHANGED <<mSparseData, lock, acquired, notRWSet>>

Splice(th) ==
    /\ threads[th].pc = "splice"
    /\ mSparseData' = Spliced(mSparseData, threads[th].data)
    /\ threads' = [threads EXCEPT ![th].pc = "copy"]
    /\ UNCHANGED <<lock, acquired, notRWSet>>

Copy(th) ==
    /\ threads[th].pc = "copy"
    /\ mSparseData' = addValidData(threads[th].base, threads[th].data)
    /\ threads' = [threads EXCEPT ![th].pc = "release"]
    /\ UNCHANGED <<lock, acquired, notRWSet>>

ReleaseWrite(th) ==
    /\ threads[th].pc = "release"
    /\ lock' = [lock EXCEPT !.writer = FALSE]
    /\ threads' = [threads EXCEPT ![th] = IdleThread]
    /\ UNCHANGED <<mSparseData, acquired, notRWSet>>

AcquireRead(th) ==
    /\ threads[th].pc = "idle"
    /\ canRead(lock)
    /\ lock' = [lock EXCEPT !.readers = @ + 1]
    /\ threads' = [threads EXCEPT ![th].pc = "reading"]
    /\ UNCHANGED <<mSparseData, acquired, notRWSet>>

\* The reader queries (dataAt, getSpaceUsed, traversal) and lets go.
ReleaseRead(th) ==
    /\ threads[th].pc = "reading"
    /\ lock' = [lock EXCEPT !.readers = @ - 1]
    /\ threads' = [threads EXCEPT ![th] = IdleThread]
    /\ UNCHANGED <<mSparseData, acquired, notRWSet>>

NextRW ==
    \/ \E th \in Writers :
          AcquireWrite(th) \/ Search(th) \/ Splice(th) \/ Copy(th) \/ ReleaseWrite(th)
    \/ \E th \in Readers : AcquireRead(th) \/ ReleaseRead(th)
SpecRW == Init /\ [][NextRW]_vars

\* SparseData::debugPrint: one action for its entry, one per turn of its
\* do-while loop.  Insertions are made before the call.
notWalkSet == <<chunkVars, travVars, rwVars, bulletVars>>

DebugPrintCall ==
    /\ walk = NoWalk
    /\ walk' = [NoWalk EXCEPT !.active = TRUE]
    /\ UNCHANGED <<setVars, notWalkSet>>

DebugPrintLoop ==
    /\ walk.active
    /\ LET r == dataAt(mSparseData, walk.position)
           printed == IF r.data # NULL
                      THEN <<[kind |-> "data", at |-> walk.position, len |-> r.length]>>
                      ELSE IF r.length # 0
                      THEN <<[kind |-> "invalid", at |-> walk.position, len |-> r.length]>>
                      ELSE <<>>
       IN  walk' = [active |-> r.length # 0,
                    finished |-> r.length = 0,
                    position |-> Word(walk.position + r.length),
                    report |-> walk.report \o printed]
    /\ UNCHANGED <<setVars, notWalkSet>>

NextWalk == (walk = NoWalk /\ AddValidData) \/ DebugPrintCall \/ DebugPrintLoop
SpecWalk == Init /\ [][NextWalk]_vars /\ WF_vars(DebugPrintLoop)

\* The exported functions of the bullet plugin.  A failing assert either
\* aborts the process or, in a build without assertions, does nothing.
notBullet == <<setVars, chunkVars, travVars, rwVars, walkVars>>
Builds == {"assertions", "no assertions"}

init ==
    /\ ~asserts.aborted
    /\ core_plugin_refcount < MaxRef
    /\ registered' = IF core_plugin_refcount = 0
                     THEN [now |-> TRUE, twice |-> registered.twice \/ registered.now]
                     ELSE registered
    /\ core_plugin_refcount' = core_plugin_refcount + 1
    /\ UNCHANGED <<asserts, objects, physicalObjects, notBullet>>

increfcount ==
    /\ ~asserts.aborted
    /\ core_plugin_refcount < MaxRef
    /\ core_plugin_refcount' = core_plugin_refcount + 1
    /\ UNCHANGED <<registered, asserts, objects, physicalObjects, notBullet>>

decrefcount ==
    /\ ~asserts.aborted
    /\ core_plugin_refcount > -MaxRef
    /\ IF core_plugin_refcount > 0
       THEN /\ core_plugin_refcount' = core_plugin_refcount - 1
            /\ UNCHANGED asserts
       ELSE \E build \in Builds :
               IF build = "assertions"
               THEN /\ asserts' = [asserts EXCEPT !.decrefcount = TRUE,
                                                  !.aborted = TRUE]
                    /\ UNCHANGED core_plugin_refcount
               ELSE /\ asserts' = [asserts EXCEPT !.decrefcount = TRUE]
                    /\ core_plugin_refcount' = core_plugin_refcount - 1
    /\ UNCHANGED <<registered, objects, physicalObjects, notBullet>>

destroy ==
    /\ ~asserts.aborted
    /\ IF core_plugin_refcount > 0
       THEN /\ core_plugin_refcount' = core_plugin_refcount - 1
            /\ IF core_plugin_refcount - 1 = 0
               THEN /\ registered' = [registered EXCEPT !.now = FALSE]
                    /\ UNCHANGED asserts
               ELSE /\ \E build \in Builds :
                          asserts' = [asserts EXCEPT
                                         !.destroy = TRUE,
                                         !.aborted = (build = "assertions")]
                    /\ UNCHANGED registered
       ELSE UNCHANGED <<core_plugin_refcount, registered, asserts>>
    /\ UNCHANGED <<objects, physicalObjects, notBullet>>

\* BulletSystem: objects holds one bulletObj per mesh proxy created,
\* physicalObjects the objects (by their index in objects) made physical.
bulletObj == [isPhysical |-> FALSE]

addPhysicalObject(list, obj) == Append(list, obj)

removePhysicalObject(list, obj) ==
    LET found == {i \in 1 .. Len(list) : list[i] = obj}
    IN  IF found = {} THEN list
        ELSE SubSeq(list, 1, SetMin(found) - 1)
             \o SubSeq(list, SetMin(found) + 1, Len(list))

createProxy ==
    /\ Len(objects) < NumObjs
    /\ \E meshptr \in BOOLEAN :
          objects' = IF meshptr THEN Append(objects, bulletObj) ELSE objects
    /\ UNCHANGED <<core_plugin_refcount, registered, asserts,
                   physicalObjects, notBullet>>

setPhysical ==
    /\ \E obj \in 1 .. Len(objects), flag \in BOOLEAN :
          /\ flag => Len(physicalObjects) < MaxPhys
          /\ objects' = [objects EXCEPT ![obj].isPhysical = flag]
          /\ physicalObjects' = IF flag
                                THEN addPhysicalObject(physicalObjects, obj)
                                ELSE removePhysicalObject(physicalObjects, obj)
    /\ UNCHANGED <<core_plugin_refcount, registered, asserts, notBullet>>

NextBullet == init \/ increfcount \/ decrefcount \/ destroy
              \/ createProxy \/ setPhysical
SpecBullet == Init /\ [][NextBullet]_vars

\* The mutating operations of SparseData's public interface.
NextPublic == AddValidData \/ Erase \/ Clear
SpecPublic == Init /\ [][NextPublic]_vars

NextEof == AddValidData \/ AddStreamingData
SpecEof == Init /\ [][NextEof]_vars

NextScenario == AddScenarioData
SpecScenario == InitScenario /\ [][NextScenario]_vars

(***************************************************************************)
(* Properties                                                              *)
(***************************************************************************)
\* Offsets covered by the entries' intervals.
Covered(list) ==
    {o \in ProbeOffsets : \E i \in 1 .. Len(list) : Within(list[i], o)}

\* Offsets for which some inserted chunk supplied a byte.
Inserted == {o \in DOMAIN latest : latest[o] # NoByte}

\* The entries' intervals, in list order.
Ranges(list) == [i \in 1 .. Len(list) |-> <<startbyte(list[i]), endbyte(list[i])>>]

CoverageIsUnion == Covered(mSparseData) = Inserted

\* One insertion has just subsumed two entries.
CoverageIsUnionWitness ==
    /\ last.touched = 2
    /\ Len(mSparseData) = 1
    /\ Cardinality(Inserted) = MaxOff

DataAtInsideEntry ==
    \A i \in 1 .. Len(mSparseData) :
        \A o \in ProbeOffsets :
            (~goesToEndOfFile(mSparseData[i]) /\ Within(mSparseData[i], o)) =>
                dataAt(mSparseData, o) =
                    [data |-> [buf |-> mSparseData[i].mData,
                               idx |-> o - startbyte(mSparseData[i])],
                     length |-> endbyte(mSparseData[i]) - o]

\* An offset strictly inside the second of two entries.
DataAtInsideEntryWitness ==
    /\ Len(mSparseData) = 2
    /\ length(mSparseData[2]) >= 2
    /\ dataAt(mSparseData, startbyte(mSparseData[2]) + 1).length
          = length(mSparseData[2]) - 1

\* C5: for an uncovered offset with an entry starting after it, dataAt
\* returns no data and the distance to the first entry starting after it.
StartsAfter(list, o) == {startbyte(list[i]) : i \in {j \in 1 .. Len(list) : startbyte(list[j]) > o}}

DataAtGap ==
    \A o \in ProbeOffsets :
        (o \notin Covered(mSparseData) /\ StartsAfter(mSparseData, o) # {}) =>
            dataAt(mSparseData, o) =
                [data |-> NULL,
                 length |-> SetMin(StartsAfter(mSparseData, o)) - o]

\* A gap of two offsets between two entries, queried at its first offset.
DataAtGapWitness ==
    /\ Len(mSparseData) = 2
    /\ startbyte(mSparseData[2]) = endbyte(mSparseData[1]) + 2
    /\ length(mSparseData[1]) > 0
    /\ dataAt(mSparseData, endbyte(mSparseData[1])) = [data |-> NULL, length |-> 2]

\* C6: when no entry is unbounded and the offset is at or past the end of
\* every entry, dataAt returns no data and run length 0; so it does for
\* every offset of the empty SparseData.
DataAtPastEnd ==
    \A o \in ProbeOffsets :
        (\A i \in 1 .. Len(mSparseData) :
            /\ ~goesToEndOfFile(mSparseData[i])
            /\ o >= endbyte(mSparseData[i])) =>
                dataAt(mSparseData, o) = [data |-> NULL, length |-> 0]

\* Two bounded entries, queried at the end of the last one.
DataAtPastEndWitness ==
    /\ Len(mSparseData) = 2
    /\ \A i \in 1 .. 2 : ~goesToEndOfFile(mSparseData[i]) /\ length(mSparseData[i]) > 0
    /\ dataAt(mSparseData, endbyte(mSparseData[2])) = [data |-> NULL, length |-> 0]

\* C7: inside an unbounded entry (offset >= its start) the run length never
\* exceeds the materialized bytes from the offset to the end of the buffer,
\* and a returned pointer lies inside the buffer.
Materialized(d, o) == IF o < endbyte(d) THEN endbyte(d) - o ELSE 0

UnboundedRunLength ==
    \A i \in 1 .. Len(mSparseData) :
        \A o \in ProbeOffsets :
            (goesToEndOfFile(mSparseData[i]) /\ o >= startbyte(mSparseData[i])) =>
                LET r == dataAt(mSparseData, o)
                IN  /\ r.length <= Materialized(mSparseData[i], o)
                    /\ r.data # NULL => r.data.idx < Len(r.data.buf)

\* C8: getSpaceUsed is the number of distinct covered offsets, however
\* often an offset was inserted.
SpaceUsedIsCoverage ==
    /\ getSpaceUsed(mSparseData) = Cardinality(Covered(mSparseData))
    /\ getSpaceUsed(mSparseData) = Cardinality(Inserted)

\* Bytes were inserted twice and entries merged, with a gap left.
SpaceUsedIsCoverageWitness ==
    /\ last.clobbered
    /\ last.touched = 1
    /\ getSpaceUsed(mSparseData) = MaxOff - 1
    /\ Len(mSparseData) = 2

\* C9 as stated: after [0,10), [20,30) and then the bridging [10,20) the
\* space used is still 20 and the set is the single entry [0,30).
BridgeLog == <<<<0, 10>>, <<20, 30>>, <<10, 20>>>>

Idempotent ==
    \A data \in BoundedChunks :
        LET once == addValidData(mSparseData, data)
            twice == addValidData(once, data)
        IN  /\ twice = once
            /\ Covered(twice) = Covered(once)
            /\ getSpaceUsed(twice) = getSpaceUsed(once)

\* A chunk of two bytes or more has just been inserted over an entry that
\* already held exactly its bytes, and the list is as it was.
IdempotentWitness ==
    /\ last.same
    /\ last.touched = 1
    /\ Len(mSparseData) = 2
    /\ \E i \in 1 .. 2 : length(mSparseData[i]) >= 2

\* The insertions of a log made again, in the order p, on an empty
\* SparseData; the chunk of the i-th logged interval is filled with i.
ChunkOfLog(i) ==
    DenseData(log[i][1], log[i][2] - log[i][1], FALSE,
              [k \in 1 .. (log[i][2] - log[i][1]) |-> i])

RECURSIVE Replay(_, _)
Replay(p, n) ==
    IF n = 0 THEN <<>>
    ELSE addValidData(Replay(p, n - 1), ChunkOfLog(p[n]))

Orders(n) ==
    {p \in [1 .. n -> 1 .. n] : \A i, j \in 1 .. n : i # j => p[i] # p[j]}

\* Logged intervals containing the offset.
CoveringLog(o) == {i \in 1 .. Len(log) : log[i][1] <= o /\ o < log[i][2]}

\* C11: inserting the same chunks in any order gives the same list of
\* entry intervals and the same space used; the byte at an offset covered
\* by exactly one of the chunks is that chunk's byte in every order.
OrderIndependent ==
    \A p \in Orders(Len(log)) :
        LET s == Replay(p, Len(log))
        IN  /\ Ranges(s) = Ranges(mSparseData)
            /\ getSpaceUsed(s) = getSpaceUsed(mSparseData)
            /\ \A o \in DOMAIN latest :
                  Cardinality(CoveringLog(o)) = 1 =>
                      LET r == dataAt(s, o)
                      IN  r.data # NULL /\ {Deref(r.data)} = CoveringLog(o)

\* Three different intervals were inserted, the last one joining two
\* entries; some offset lies in one of them only, another in several.
OrderIndependentWitness ==
    /\ Len(log) = MaxLog
    /\ Cardinality({log[i] : i \in 1 .. Len(log)}) = MaxLog
    /\ Len(mSparseData) = 1
    /\ last.touched = 2
    /\ \E o \in DOMAIN latest : Cardinality(CoveringLog(o)) = 1
    /\ \E o \in DOMAIN latest : Cardinality(CoveringLog(o)) > 1

\* C12 as stated: the list changes only through addValidData, and over any
\* sequence of public operations a covered offset stays covered.
OnlyAddValidDataMutates ==
    [][/\ mSparseData' # mSparseData => last'.op = "addValidData"
       /\ Covered(mSparseData) \subseteq Covered(mSparseData')]_vars

\* C12 amended: every addValidData call leaves each covered offset
\* covered; erase() and clear() are public too and are not bound by this.
AddValidDataKeepsCoverage ==
    [][last'.op = "addValidData" =>
          Covered(mSparseData) \subseteq Covered(mSparseData')]_vars

\* An insertion has overwritten stored bytes and everything is covered.
AddValidDataKeepsCoverageWitness ==
    /\ last.op = "addValidData"
    /\ last.clobbered
    /\ Cardinality(Covered(mSparseData)) = MaxOff

\* Offsets at which the chunk is probed: around a low start and around the
\* top of the offset range.
ChunkProbes ==
    (0 .. (2 * MaxOff + 1)) \cup ((Modulus - 2 - MaxOff) .. (Modulus - 1))

\* C13: DenseData::dataAt returns a pointer exactly for start <= offset <
\* end, at buffer index offset - start, which lies inside the buffer; for
\* every other offset it returns NULL.  This holds after any setLength calls.
ByteAtInBounds ==
    \A o \in ChunkProbes :
        LET p == DenseData_dataAt(chunk, o)
        IN  /\ p # NULL <=> (startbyte(chunk) <= o /\ o < endbyte(chunk))
            /\ p # NULL =>
                  /\ p.buf = chunk.mData
                  /\ p.idx = o - startbyte(chunk)
                  /\ 0 <= p.idx /\ p.idx < Len(chunk.mData)

\* A streaming chunk not starting at 0 has been grown to MaxOff bytes and
\* its last byte written; dataAt reaches that byte.
ByteAtInBoundsWitness ==
    /\ goesToEndOfFile(chunk)
    /\ startbyte(chunk) > 0
    /\ length(chunk) = MaxOff
    /\ chunk.mData[MaxOff] \in Bytes
    /\ DenseData_dataAt(chunk, startbyte(chunk) + MaxOff - 1) # NULL

\* C16: the buffer's size equals the interval's length, and the interval's
\* end is start + buffer size, after construction and after every
\* setLength.
BufferMatchesLength ==
    /\ Len(chunk.mData) = length(chunk)
    /\ endbyte(chunk) = Word(startbyte(chunk) + Len(chunk.mData))

\* A streaming chunk at the top of the offset range was grown by
\* setLength to two bytes, the first of them written; its end has wrapped.
BufferMatchesLengthWitness ==
    /\ goesToEndOfFile(chunk)
    /\ startbyte(chunk) = Modulus - 1
    /\ length(chunk) = 2
    /\ chunk.mData[1] \in Bytes
    /\ chunk.mData[2] \notin Bytes

\* What a traversal has visited up to its position is the list's entries up
\* to there, in list order, each once; at end() that is every entry.
VisitedInOrder ==
    trav.pos # 0 =>
        /\ trav.pos <= end(mSparseData)
        /\ trav.seen = SubSeq(Ranges(mSparseData), 1, trav.pos - 1)
        /\ \A i, j \in 1 .. Len(trav.seen) : i < j => trav.seen[i][1] < trav.seen[j][1]

RECURSIVE Sequentially(_, _)
Sequentially(chunks, n) ==
    IF n = 0 THEN <<>>
    ELSE addValidData(Sequentially(chunks, n - 1), chunks[n])

SortedCoalescedList(list) ==
    \A i \in 1 .. (Len(list) - 1) :
        /\ startbyte(list[i]) < startbyte(list[i + 1])
        /\ endbyte(list[i]) < startbyte(list[i + 1])

DataRuns(report) ==
    LET runs == SelectSeq(report, LAMBDA p : p.kind = "data")
    IN  [i \in 1 .. Len(runs) |-> <<runs[i].at, runs[i].at + runs[i].len>>]

RECURSIVE SumRuns(_, _)
SumRuns(report, i) ==
    IF i > Len(report) THEN 0
    ELSE (IF report[i].kind = "data" THEN report[i].len ELSE 0)
         + SumRuns(report, i + 1)

\* What debugPrint has printed so far starts at 0, runs on without hole or
\* overlap up to its position, and alternates between data and invalid.
WalkInOrder ==
    /\ Len(walk.report) <= 2 * Len(mSparseData)
    /\ \A i \in 1 .. Len(walk.report) :
          /\ walk.report[i].len > 0
          /\ walk.report[i].at = (IF i = 1 THEN 0
                                  ELSE walk.report[i - 1].at + walk.report[i - 1].len)
          /\ i > 1 => walk.report[i].kind # walk.report[i - 1].kind
    /\ walk.report # <<>> =>
          walk.position = walk.report[Len(walk.report)].at
                          + walk.report[Len(walk.report)].len

\* When debugPrint has returned, its data runs are the entries, it has
\* stopped at the end of the last entry, and the data run lengths add up
\* to getSpaceUsed.
WalkComplete ==
    walk.finished =>
        /\ DataRuns(walk.report) = Ranges(mSparseData)
        /\ walk.position = (IF mSparseData = <<>> THEN 0
                            ELSE endbyte(mSparseData[Len(mSparseData)]))
        /\ SumRuns(walk.report, 1) = getSpaceUsed(mSparseData)

LifecycleAssertsHold ==
    ~asserts.decrefcount =>
        /\ core_plugin_refcount >= 0
        /\ ~asserts.destroy

\* C19: the constructor is registered exactly when the reference count is
\* positive, and was never registered again while registered.
RegisteredIffCounted ==
    /\ registered.now <=> core_plugin_refcount > 0
    /\ ~registered.twice

\* The number of occurrences of an object in physicalObjects.
Occurrences(obj) ==
    Cardinality({i \in 1 .. Len(physicalObjects) : physicalObjects[i] = obj})

\* C20: an object occurs in physicalObjects once if its isPhysical flag
\* is set and not at all otherwise.
PhysicalListedOnce ==
    \A obj \in 1 .. Len(objects) :
        Occurrences(obj) = (IF objects[obj].isPhysical THEN 1 ELSE 0)

====
